---- MODULE Spec2Model ----
(***************************************************************************)
(* A model of clay's Google Play Music client (src/clay/gp.py): the        *)
(* asynchronous and synchronized decorators, the GP singleton with its two *)
(* caches, and the operations built from them.                             *)
(*                                                                         *)
(* Every thread runs a stack of frames; a frame is a function and a        *)
(* position in it.  One action is one statement of the source that reads   *)
(* or writes shared state (a cache, a lock, the remote session), so the    *)
(* interleavings of the model are those of Python threads.                 *)
(*                                                                         *)
(* The main thread makes the calls, through the *_async variants; every    *)
(* synchronous core runs on the thread its call started.                   *)
(***************************************************************************)
EXTENDS Integers, Sequences, FiniteSets, TLC

\* ------------------------------------------------------------------ bounds
MaxSpawn == 2        \* background threads that can exist at one time
MaxCalls == 2        \* top-level calls made in one run
MaxTrackId == 2      \* distinct track identifiers known to the remote service
MaxExtra == 1        \* distinct 'extra' mappings a caller passes, besides dict()
MaxCached == 2       \* tracks in a library cache handed to the entity models
MaxEntries == 2      \* entries of a playlist handed to playlist_items_to_tracks
MaxGets == 3         \* GP.get() calls made in one run of the singleton's specification
MaxCacheCalls == 3   \* top-level calls made in one run of the caches' specification
MaxLockCalls == 2    \* top-level calls made in one run of the locks' specification
MaxItems == 2        \* items of a song list handed to track_changed

\* ------------------------------------------------------------------ values
\* Python values, tagged so that any two of them can be compared.
None == [k |-> "None"]
Bool(b) == [k |-> "bool", b |-> b]
List(s) == [k |-> "list", items |-> s]
Str(s) == [k |-> "str", s |-> s]
Error(w) == [k |-> "Exception", what |-> w]

\* Python's truth value of an object: None, False and the empty list are false.
Truthy(v) ==
    CASE v.k = "None" -> FALSE
      [] v.k = "bool" -> v.b
      [] v.k = "list" -> Len(v.items) > 0
      [] OTHER -> TRUE

\* An identifier field that holds None, and a key a response fragment lacks.
NoneId == 0
KeyAbsent == -1
TrackIds == 1..MaxTrackId

Track(id_, track_id, store_id) ==
    [k |-> "Track", id_ |-> id_, track_id |-> track_id, store_id |-> store_id]

\* dict.get(key): None for a missing key.
DictGet(v) == IF v = KeyAbsent THEN NoneId ELSE v

\* Track.from_data(data) raises when the fragment has none of the three keys.
FromDataRaises(data) ==
    data.id = KeyAbsent /\ data.storeId = KeyAbsent /\ data.trackId = KeyAbsent

FromData(data) ==
    Track(DictGet(data.id), DictGet(data.trackId), DictGet(data.storeId))

\* Track.from_data(data, many=True)
FromDataMany(seq) == [i \in 1..Len(seq) |-> FromData(seq[i])]

\* Track.id
TrackIdRaises(t) == t.id_ = NoneId /\ t.track_id = NoneId /\ t.store_id = NoneId

\* An accessor that prefers track_id to id_.
TrackIdTrackFirst(t) ==
    IF t.track_id # NoneId THEN t.track_id
    ELSE IF t.id_ # NoneId THEN t.id_
    ELSE t.store_id

TrackId(t) ==
    IF t.id_ # NoneId THEN t.id_
    ELSE IF t.track_id # NoneId THEN t.track_id
    ELSE t.store_id

\* Track.__eq__(self, other)
TrackEq(self, other) ==
    IF self.track_id # NoneId THEN self.track_id = other.track_id
    ELSE IF self.store_id # NoneId THEN self.store_id = other.store_id
    ELSE IF self.id_ # NoneId THEN self.store_id = other.id_
    ELSE FALSE

\* Track.type raises as Track.id does: when the three fields are all empty.
TrackTypeRaises(t) == t.track_id = NoneId /\ t.store_id = NoneId /\ t.id_ = NoneId

\* Track.copy
TrackCopy(t) == Track(t.id_, t.track_id, t.store_id)

\* ----------------------------------------------------------- remote service
\* The fragment the remote service returns for library item i.
Song(i) == [id |-> i, trackId |-> KeyAbsent, storeId |-> KeyAbsent]

RECURSIVE SongsOf(_, _)
SongsOf(lib, i) ==
    IF i > MaxTrackId THEN <<>>
    ELSE (IF i \in lib THEN <<Song(i)>> ELSE <<>>) \o SongsOf(lib, i + 1)

\* mobile_client.get_all_songs(): the library, in identifier order.
GetAllSongs(lib) == SongsOf(lib, 1)

\* A playlist entry: a bare track-id, or with the track's fragment embedded.
BareEntry(i) == [trackId |-> i, track |-> None]
FullEntry(i) ==
    [trackId |-> i,
     track |-> [k |-> "dict", id |-> KeyAbsent, trackId |-> KeyAbsent, storeId |-> i]]

\* mobile_client.get_all_user_playlist_contents(): one playlist whose first
\* entry embeds a store track and whose second is a bare reference to item 1.
RemotePlaylists == << [id |-> 1, tracks |-> <<FullEntry(MaxTrackId), BareEntry(1)>>] >>

\* What the remote service can answer: that playlist, or no playlist at all.
RemotePlaylistAnswers == {RemotePlaylists, <<>>}

\* GP.get_track_by_id(any_id) over a populated cache: the first track one of
\* whose identifier fields is any_id, else None.
RECURSIVE FirstMatch(_, _)
FirstMatch(tracks, any_id) ==
    IF tracks = <<>> THEN None
    ELSE IF any_id \in {Head(tracks).id_, Head(tracks).store_id, Head(tracks).track_id}
         THEN Head(tracks)
         ELSE FirstMatch(Tail(tracks), any_id)

\* Iterating over self.cached_tracks raises when the cache holds None.
GetTrackByIdRaises(cache) == cache.k # "list"

GetTrackById(cache, any_id) == FirstMatch(cache.items, any_id)

\* Objects: a heap is the sequence of the Track objects that exist, and a
\* reference to one is its position.  The cached tracks are the first objects.
\* The reference get_track_by_id returns: the first object that matches.
RefOf(tracks, any_id) ==
    CHOOSE i \in 1..Len(tracks) :
        /\ tracks[i] = FirstMatch(tracks, any_id)
        /\ \A j \in 1..(i - 1) : tracks[j] # tracks[i]

\* A copy() that returns the object it was called on.
SameObject(heap, r) == [heap |-> heap, ref |-> r]

\* Track.copy() of object r: a new object with the fields of r.
CopyObject(heap, r) == [heap |-> Append(heap, TrackCopy(heap[r])), ref |-> Len(heap) + 1]

\* One turn of the loop of playlist_items_to_tracks, for entry e: acc holds
\* the heap, the references appended to results, and the error raised if any.
PlaylistItem(e, cache, acc) ==
    LET cached == IF cache.k = "list"
                  THEN List(SubSeq(acc.heap, 1, Len(cache.items))) ELSE cache
    IN IF e.track # None
       THEN IF FromDataRaises(e.track)
            THEN [acc EXCEPT !.error = Error("from_data")]
            ELSE [acc EXCEPT !.heap = Append(@, FromData(e.track)),
                             !.refs = Append(@, Len(acc.heap) + 1)]
       ELSE IF GetTrackByIdRaises(cached)
            THEN [acc EXCEPT !.error = Error("TypeError")]
            ELSE IF GetTrackById(cached, e.trackId) = None
                 THEN [acc EXCEPT !.error = Error("AttributeError")]
                 ELSE LET c == CopyObject(acc.heap, RefOf(cached.items, e.trackId))
                      IN [acc EXCEPT !.heap = [c.heap EXCEPT ![c.ref].track_id = e.trackId],
                                     !.refs = Append(@, c.ref)]

RECURSIVE PlaylistItems(_, _, _)
PlaylistItems(entries, cache, acc) ==
    IF entries = <<>> \/ acc.error # None THEN acc
    ELSE PlaylistItems(Tail(entries), cache, PlaylistItem(Head(entries), cache, acc))

\* Playlist.playlist_items_to_tracks: the error the first entry that cannot be
\* resolved raises, or the tracks of the entries (and the references to them);
\* and the cached tracks as the call leaves them.
PlaylistItemsToTracks(entries, cache) ==
    LET before == IF cache.k = "list" THEN cache.items ELSE <<>>
        r == PlaylistItems(entries, cache, [error |-> None, heap |-> before, refs |-> <<>>])
    IN [error |-> r.error,
        tracks |-> IF r.error = None THEN [i \in 1..Len(r.refs) |-> r.heap[r.refs[i]]] ELSE <<>>,
        refs |-> r.refs,
        cache |-> IF cache.k = "list" THEN List(SubSeq(r.heap, 1, Len(before))) ELSE cache]

\* Playlist.from_data(data, many=True)
PlaylistsFromData(resp, cache) ==
    LET one(i) == PlaylistItemsToTracks(resp[i].tracks, cache)
        bad == {i \in 1..Len(resp) : one(i).error # None}
    IN IF bad # {}
       THEN [error |-> one(CHOOSE i \in bad : \A j \in bad : i <= j).error, value |-> None]
       ELSE [error |-> None,
             value |-> List([i \in 1..Len(resp) |->
                               [k |-> "Playlist", id |-> resp[i].id, tracks |-> one(i).tracks]])]

\* ------------------------------------------------------------------- state
Main == 0
Spawned == 1..MaxSpawn
Threads == {Main} \cup Spawned

\* The operations wrapped by synchronized: each has a lock of its own.
Synchronized == {"login", "get_all_tracks", "get_all_user_playlist_contents", "create_station"}
\* The operations that have an *_async variant.
Asynchronous == {"login", "get_all_tracks", "get_stream_url", "get_all_user_playlist_contents",
                 "search", "create_station", "add_to_my_library", "remove_from_my_library"}
\* The operations called on (or with) a Track.
TrackOps == {"create_station", "add_to_my_library", "remove_from_my_library"}
NoArg == 0
Args(f) == IF f \in TrackOps THEN TrackIds ELSE {NoArg}
Extras == 0..MaxExtra

VARIABLES
    stack,            \* per thread: its frames [f, l], innermost first
    ret,              \* per thread: the value the last callee returned
    exc,              \* per thread: the exception being propagated, or None
    result,           \* per thread: the local 'result' of login / add / remove
    data,             \* per thread: the local 'data' of get_all_tracks / the playlist response
    prev_auth_state,  \* per thread: login's local
    call,             \* per thread: the top-level call it runs
    lock,             \* per synchronized operation: the thread holding its Lock, or -1
    cached_tracks,    \* GP.cached_tracks
    cached_playlists, \* GP.cached_playlists
    is_authenticated, \* mobile_client.is_authenticated()
    library,          \* the remote library: the identifiers in it
    callbacks,        \* per thread: the callback invocations of its call, in order
    coreOut,          \* per thread: how the synchronous core of its call ended
    fired,            \* per thread: caches_invalidated.fire() calls of its call
    authEvents,       \* per thread: payloads of auth_state_changed.fire() of its call
    authAtCall,       \* per thread: is_authenticated when its login body was entered
    fetches,          \* get_all_songs() calls that returned since cached_tracks was last cleared
    nCalls,           \* top-level calls made so far
    instance,         \* GP.instance: the GP object, or NoInstance for None
    constructed,      \* GP objects constructed so far
    staleAtStart      \* per thread: when its get_all_tracks call started, the library data
                      \* in existence had been fetched before an invalidation that had
                      \* finished (and no data has been fetched since)

vars == <<stack, ret, exc, result, data, prev_auth_state, call, lock, cached_tracks,
          cached_playlists, is_authenticated, library, callbacks, coreOut, fired,
          authEvents, authAtCall, fetches, nCalls, instance, constructed, staleAtStart>>

locals == <<result, data, prev_auth_state>>
caches == <<cached_tracks, cached_playlists>>
remote == <<is_authenticated, library>>
events == <<fired, authEvents, authAtCall>>
singleton == <<instance, constructed>>

Free == -1
NoCall == [op |-> "none", mode |-> "none", arg |-> NoArg, extra |-> 0, caller |-> Main]
NotEnded == [done |-> FALSE, ret |-> None, exc |-> None]
NoInstance == 0

Frame(f, l) == [f |-> f, l |-> l]
Top(t) == Head(stack[t])
At(t, f, l) == stack[t] # <<>> /\ Top(t) = Frame(f, l)
Idle(t) == stack[t] = <<>>

\* GP.__init__ has run (GP.get() at start-up, which made the one GP object):
\* both caches None, nobody logged in; the remote library holds whatever the
\* account holds.
Init ==
    /\ stack = [t \in Threads |-> <<>>]
    /\ ret = [t \in Threads |-> None]
    /\ exc = [t \in Threads |-> None]
    /\ result = [t \in Threads |-> None]
    /\ data = [t \in Threads |-> None]
    /\ prev_auth_state = [t \in Threads |-> FALSE]
    /\ call = [t \in Threads |-> NoCall]
    /\ lock = [f \in Synchronized |-> Free]
    /\ cached_tracks = None
    /\ cached_playlists = None
    /\ is_authenticated = FALSE
    /\ library \in SUBSET TrackIds
    /\ callbacks = [t \in Threads |-> <<>>]
    /\ coreOut = [t \in Threads |-> NotEnded]
    /\ fired = [t \in Threads |-> 0]
    /\ authEvents = [t \in Threads |-> <<>>]
    /\ authAtCall = [t \in Threads |-> FALSE]
    /\ fetches = 0
    /\ nCalls = 0
    /\ instance = 1
    /\ constructed = 1
    /\ staleAtStart = [t \in Threads |-> FALSE]

\* ------------------------------------------------------- calls and returns
\* The first frame of a call of f: the synchronized wrapper's, or the body's.
Entry(f) == IF f \in Synchronized THEN Frame(f, "acquire") ELSE Frame(f, "start")

\* The frame that ends when thread t pops is the synchronous core of its call:
\* what is under it is the thread body of asynchronous(), or nothing.
EndsCore(t) == Tail(stack[t]) = <<>> \/ Head(Tail(stack[t])).f = "process"

\* Thread t leaves its innermost frame, returning v (e = None) or raising e.
Leave(t, v, e) ==
    /\ stack' = [stack EXCEPT ![t] = Tail(@)]
    /\ ret' = [ret EXCEPT ![t] = v]
    /\ exc' = [exc EXCEPT ![t] = e]
    /\ coreOut' = IF EndsCore(t)
                  THEN [coreOut EXCEPT ![t] = [done |-> TRUE, ret |-> v, exc |-> e]]
                  ELSE coreOut

\* Thread t moves to label l of its innermost frame.
Goto(t, l) ==
    /\ stack' = [stack EXCEPT ![t] = <<Frame(Top(t).f, l)>> \o Tail(@)]
    /\ UNCHANGED <<ret, exc, coreOut>>

\* Thread t calls g and will resume at label l of its innermost frame.
Call(t, g, l) ==
    /\ stack' = [stack EXCEPT ![t] = <<Entry(g), Frame(Top(t).f, l)>> \o Tail(@)]
    /\ UNCHANGED <<ret, exc, coreOut>>

\* The per-call records of thread t, as a new top-level call starts on it.
Fresh(t, c) ==
    /\ call' = [call EXCEPT ![t] = c]
    /\ ret' = [ret EXCEPT ![t] = None]
    /\ exc' = [exc EXCEPT ![t] = None]
    /\ result' = [result EXCEPT ![t] = None]
    /\ data' = [data EXCEPT ![t] = None]
    /\ prev_auth_state' = [prev_auth_state EXCEPT ![t] = FALSE]
    /\ callbacks' = [callbacks EXCEPT ![t] = <<>>]
    /\ coreOut' = [coreOut EXCEPT ![t] = NotEnded]
    /\ fired' = [fired EXCEPT ![t] = 0]
    /\ authEvents' = [authEvents EXCEPT ![t] = <<>>]
    /\ authAtCall' = [authAtCall EXCEPT ![t] = FALSE]
    /\ nCalls' = nCalls + 1

\* A wrapper that calls process() itself instead of starting a thread.
ThreadStartInline(caller, s) == s = caller

\* Thread(target=process).start(): process runs on a thread of its own, one
\* that is not running (the lowest such, threads being interchangeable).
ThreadStart(caller, s) ==
    /\ s \in Spawned /\ Idle(s)
    /\ \A u \in Spawned : Idle(u) => s <= u

\* asynchronous(f)'s wrapper: pops callback and extra, starts the thread,
\* returns; as long as fewer than max calls have been made.
Spawn(f, a, x, max) ==
    /\ Idle(Main) /\ nCalls < max
    /\ \E s \in Threads :
        /\ ThreadStart(Main, s)
        /\ stack' = [stack EXCEPT ![s] = <<Frame("process", "try")>>]
        /\ Fresh(s, [op |-> f, mode |-> "async", arg |-> a, extra |-> x, caller |-> Main])
    /\ UNCHANGED <<lock, caches, remote, fetches, singleton, staleAtStart>>

AsyncCall(f, a, x) == Spawn(f, a, x, MaxCalls)

\* Library data exists (fetched and about to be stored, or in the cache) that
\* was fetched before cached_tracks was last cleared.
StaleData ==
    /\ fetches = 0
    /\ cached_tracks # None \/ \E u \in Threads : At(u, "get_all_tracks", "store")

\* A call of invalidate_caches has cleared cached_tracks and not returned yet.
Invalidating ==
    \E u \in Threads : \E i \in 1..Len(stack[u]) :
        stack[u][i].f = "invalidate_caches" /\ stack[u][i].l # "start"

\* staleAtStart as thread t calls g.
StartOf(t, g) ==
    IF g = "get_all_tracks"
    THEN [staleAtStart EXCEPT ![t] = StaleData /\ ~Invalidating]
    ELSE staleAtStart

\* process(): try: result = func(*args, **kwargs)
ProcessTry(t) ==
    /\ At(t, "process", "try")
    /\ Call(t, call[t].op, "after")
    /\ staleAtStart' = StartOf(t, call[t].op)
    /\ UNCHANGED <<locals, call, lock, caches, remote, callbacks, events, fetches, nCalls,
                   singleton>>

\* A thread body without its except clause: an exception ends the thread.
ProcessCallbacksNoExcept(t) ==
    IF exc[t] # None
    THEN <<>>
    ELSE << [result |-> ret[t], error |-> None, extra |-> call[t].extra, thread |-> t] >>

\* A thread body that calls callback(result, error) without **extra.
ProcessCallbacksNoExtra(t) ==
    IF exc[t] # None
    THEN << [result |-> None, error |-> exc[t], extra |-> 0, thread |-> t] >>
    ELSE << [result |-> ret[t], error |-> None, extra |-> 0, thread |-> t] >>

\* The callback invocations process() makes once func has returned or raised:
\* except Exception as error: callback(None, error, **extra)
\* else: callback(result, None, **extra)
ProcessCallbacks(t) ==
    IF exc[t] # None
    THEN << [result |-> None, error |-> exc[t], extra |-> call[t].extra, thread |-> t] >>
    ELSE << [result |-> ret[t], error |-> None, extra |-> call[t].extra, thread |-> t] >>

\* process() after func: the callback is called and the thread ends, its
\* locals with it.
ProcessAfter(t) ==
    /\ At(t, "process", "after")
    /\ callbacks' = [callbacks EXCEPT ![t] = @ \o ProcessCallbacks(t)]
    /\ stack' = [stack EXCEPT ![t] = Tail(@)]
    /\ exc' = [exc EXCEPT ![t] = None]
    /\ ret' = [ret EXCEPT ![t] = None]
    /\ result' = [result EXCEPT ![t] = None]
    /\ data' = [data EXCEPT ![t] = None]
    /\ prev_auth_state' = [prev_auth_state EXCEPT ![t] = FALSE]
    /\ staleAtStart' = [staleAtStart EXCEPT ![t] = FALSE]
    /\ UNCHANGED <<coreOut, call, lock, caches, remote, events, fetches, nCalls, singleton>>

\* A Lock kept per receiver object instead of per wrapped function.
LockAcquirablePerObject(f, t) ==
    IF lock[f] = Free THEN TRUE ELSE call[lock[f]].arg # call[t].arg

\* One Lock shared by every wrapped function (made outside synchronized()).
LockAcquirableShared(f, t) == \A g \in Synchronized : lock[g] = Free

\* lock.acquire() returns once the Lock is not held.
LockAcquirable(f, t) == lock[f] = Free

\* synchronized(f)'s wrapper: try: lock.acquire(); return func(*args, **kwargs)
Acquire(t) ==
    /\ stack[t] # <<>> /\ Top(t).l = "acquire"
    /\ LockAcquirable(Top(t).f, t)
    /\ lock' = [lock EXCEPT ![Top(t).f] = t]
    /\ stack' = [stack EXCEPT ![t] = <<Frame(Top(t).f, "start"), Frame(Top(t).f, "release")>> \o Tail(@)]
    /\ UNCHANGED <<ret, exc, coreOut, locals, call, caches, remote, callbacks, events, fetches, nCalls,
                   singleton, staleAtStart>>

\* A wrapper that releases after the return only, with no finally clause.
FinallyOnReturnOnly(f, t) == IF exc[t] = None THEN [lock EXCEPT ![f] = Free] ELSE lock

\* The Lock of f once the wrapper's finally clause has run on thread t.
Finally(f, t) == [lock EXCEPT ![f] = Free]

\* synchronized(f)'s wrapper: finally: lock.release(); the body's value or
\* exception goes on to the caller.
Release(t) ==
    /\ stack[t] # <<>> /\ Top(t).l = "release"
    /\ lock' = Finally(Top(t).f, t)
    /\ Leave(t, ret[t], exc[t])
    /\ UNCHANGED <<locals, call, caches, remote, callbacks, events, fetches, nCalls,
                   singleton, staleAtStart>>

\* ------------------------------------------------------ GP.invalidate_caches
\* self.cached_tracks = None
InvalidateTracks(t) ==
    /\ At(t, "invalidate_caches", "start")
    /\ cached_tracks' = None
    /\ fetches' = 0
    /\ Goto(t, "playlists")
    /\ UNCHANGED <<locals, call, lock, cached_playlists, remote, callbacks, events, nCalls,
                   singleton, staleAtStart>>

\* self.cached_playlists = None
InvalidatePlaylists(t) ==
    /\ At(t, "invalidate_caches", "playlists")
    /\ cached_playlists' = None
    /\ Goto(t, "fire")
    /\ UNCHANGED <<locals, call, lock, cached_tracks, remote, callbacks, events, fetches, nCalls,
                   singleton, staleAtStart>>

\* self.caches_invalidated.fire(), and the return
InvalidateFire(t) ==
    /\ At(t, "invalidate_caches", "fire")
    /\ fired' = [fired EXCEPT ![t] = @ + 1]
    /\ Leave(t, None, None)
    /\ UNCHANGED <<locals, call, lock, caches, remote, callbacks, authEvents, authAtCall,
                   fetches, nCalls, singleton, staleAtStart>>

\* ------------------------------------------------------------------ GP.login
\* A login that logs out but does not call self.invalidate_caches().
LoginLogoutOnly(t) ==
    /\ At(t, "login", "start")
    /\ authAtCall' = [authAtCall EXCEPT ![t] = is_authenticated]
    /\ is_authenticated' = FALSE
    /\ Goto(t, "prev")
    /\ UNCHANGED <<locals, call, lock, caches, library, callbacks, fired, authEvents,
                   fetches, nCalls, singleton, staleAtStart>>

\* self.mobile_client.logout(), then the call of self.invalidate_caches()
LoginLogout(t) ==
    /\ At(t, "login", "start")
    /\ authAtCall' = [authAtCall EXCEPT ![t] = is_authenticated]
    /\ is_authenticated' = FALSE
    /\ Call(t, "invalidate_caches", "prev")
    /\ UNCHANGED <<locals, call, lock, caches, library, callbacks, fired, authEvents,
                   fetches, nCalls, singleton, staleAtStart>>

\* prev_auth_state = self.is_authenticated
LoginPrev(t) ==
    /\ At(t, "login", "prev")
    /\ prev_auth_state' = [prev_auth_state EXCEPT ![t] = is_authenticated]
    /\ Goto(t, "remote")
    /\ UNCHANGED <<result, data, call, lock, caches, remote, callbacks, events, fetches, nCalls,
                   singleton, staleAtStart>>

\* result = self.mobile_client.login(email, password, device_id): the remote
\* service accepts the credentials, refuses them, or the call raises.
LoginRemote(t) ==
    /\ At(t, "login", "remote")
    /\ \/ /\ is_authenticated' = TRUE
          /\ result' = [result EXCEPT ![t] = Bool(TRUE)]
          /\ Goto(t, "fire")
       \/ /\ result' = [result EXCEPT ![t] = Bool(FALSE)]
          /\ Goto(t, "fire")
          /\ UNCHANGED is_authenticated
       \/ /\ Leave(t, None, Error("login"))
          /\ UNCHANGED <<result, is_authenticated>>
    /\ UNCHANGED <<data, prev_auth_state, call, lock, caches, library, callbacks, events,
                   fetches, nCalls, singleton, staleAtStart>>

\* The payloads login hands to auth_state_changed.fire():
\* if prev_auth_state != self.is_authenticated: fire(self.is_authenticated)
LoginFires(t) ==
    IF prev_auth_state[t] # is_authenticated THEN <<is_authenticated>> ELSE <<>>

\* the if, the fire, and return result
LoginFire(t) ==
    /\ At(t, "login", "fire")
    /\ authEvents' = [authEvents EXCEPT ![t] = @ \o LoginFires(t)]
    /\ Leave(t, result[t], None)
    /\ UNCHANGED <<locals, call, lock, caches, remote, callbacks, fired, authAtCall,
                   fetches, nCalls, singleton, staleAtStart>>

\* --------------------------------------------------------- GP.get_all_tracks
\* if self.cached_tracks:
CacheHit(cache) == Truthy(cache)

GetAllTracksCheck(t) ==
    /\ At(t, "get_all_tracks", "start")
    /\ Goto(t, IF CacheHit(cached_tracks) THEN "hit" ELSE "fetch")
    /\ UNCHANGED <<locals, call, lock, caches, remote, callbacks, events, fetches, nCalls,
                   singleton, staleAtStart>>

\* return self.cached_tracks (the cache hit)
GetAllTracksHit(t) ==
    /\ At(t, "get_all_tracks", "hit")
    /\ Leave(t, cached_tracks, None)
    /\ UNCHANGED <<locals, call, lock, caches, remote, callbacks, events, fetches, nCalls,
                   singleton, staleAtStart>>

\* data = self.mobile_client.get_all_songs(): the library, or the call raises.
GetAllTracksFetch(t) ==
    /\ At(t, "get_all_tracks", "fetch")
    /\ \/ /\ data' = [data EXCEPT ![t] = List(GetAllSongs(library))]
          /\ fetches' = fetches + 1
          /\ staleAtStart' = [u \in Threads |-> FALSE]
          /\ Goto(t, "store")
       \/ /\ Leave(t, None, Error("get_all_songs"))
          /\ UNCHANGED <<data, fetches, staleAtStart>>
    /\ UNCHANGED <<result, prev_auth_state, call, lock, caches, remote, callbacks, events, nCalls,
                   singleton>>

\* self.cached_tracks = Track.from_data(data, True)
GetAllTracksStore(t) ==
    /\ At(t, "get_all_tracks", "store")
    /\ cached_tracks' = List(FromDataMany(data[t].items))
    /\ Goto(t, "ret")
    /\ UNCHANGED <<locals, call, lock, cached_playlists, remote, callbacks, events, fetches, nCalls,
                   singleton, staleAtStart>>

\* return self.cached_tracks
GetAllTracksReturn(t) ==
    /\ At(t, "get_all_tracks", "ret")
    /\ Leave(t, cached_tracks, None)
    /\ UNCHANGED <<locals, call, lock, caches, remote, callbacks, events, fetches, nCalls,
                   singleton, staleAtStart>>

\* ----------------------------------------- GP.get_all_user_playlist_contents
\* if self.cached_playlists: ... else the call of self.get_all_tracks()
PlaylistsCheck(t) ==
    /\ At(t, "get_all_user_playlist_contents", "start")
    /\ IF CacheHit(cached_playlists)
       THEN Goto(t, "hit") /\ UNCHANGED staleAtStart
       ELSE Call(t, "get_all_tracks", "fetch") /\ staleAtStart' = StartOf(t, "get_all_tracks")
    /\ UNCHANGED <<locals, call, lock, caches, remote, callbacks, events, fetches, nCalls,
                   singleton>>

\* return self.cached_playlists (the cache hit)
PlaylistsHit(t) ==
    /\ At(t, "get_all_user_playlist_contents", "hit")
    /\ Leave(t, cached_playlists, None)
    /\ UNCHANGED <<locals, call, lock, caches, remote, callbacks, events, fetches, nCalls,
                   singleton, staleAtStart>>

\* get_all_tracks() has returned or raised; then
\* self.mobile_client.get_all_user_playlist_contents() answers or raises.
PlaylistsFetch(t) ==
    /\ At(t, "get_all_user_playlist_contents", "fetch")
    /\ IF exc[t] # None
       THEN Leave(t, None, exc[t]) /\ UNCHANGED data
       ELSE \/ /\ \E answer \in RemotePlaylistAnswers :
                       data' = [data EXCEPT ![t] = List(answer)]
               /\ Goto(t, "reconcile")
            \/ /\ Leave(t, None, Error("get_all_user_playlist_contents"))
               /\ UNCHANGED data
    /\ UNCHANGED <<result, prev_auth_state, call, lock, caches, remote, callbacks, events,
                   fetches, nCalls, singleton, staleAtStart>>

\* Playlist.from_data(..., True): every entry resolved against cached_tracks
\* (one bare entry per response, so one read of the cache).
PlaylistsReconcile(t) ==
    /\ At(t, "get_all_user_playlist_contents", "reconcile")
    /\ LET r == PlaylistsFromData(data[t].items, cached_tracks)
       IN IF r.error # None
          THEN Leave(t, None, r.error) /\ UNCHANGED data
          ELSE data' = [data EXCEPT ![t] = r.value] /\ Goto(t, "store")
    /\ UNCHANGED <<result, prev_auth_state, call, lock, caches, remote, callbacks, events,
                   fetches, nCalls, singleton, staleAtStart>>

\* self.cached_playlists = (the reconciled playlists)
PlaylistsStore(t) ==
    /\ At(t, "get_all_user_playlist_contents", "store")
    /\ cached_playlists' = data[t]
    /\ Goto(t, "ret")
    /\ UNCHANGED <<locals, call, lock, cached_tracks, remote, callbacks, events, fetches, nCalls,
                   singleton, staleAtStart>>

\* return self.cached_playlists
PlaylistsReturn(t) ==
    /\ At(t, "get_all_user_playlist_contents", "ret")
    /\ Leave(t, cached_playlists, None)
    /\ UNCHANGED <<locals, call, lock, caches, remote, callbacks, events, fetches, nCalls,
                   singleton, staleAtStart>>

\* -------------------------------------------- GP.get_stream_url, GP.search
\* return self.mobile_client.get_stream_url(stream_id)
GetStreamUrl(t) ==
    /\ At(t, "get_stream_url", "start")
    /\ \/ Leave(t, Str("url"), None)
       \/ Leave(t, None, Error("get_stream_url"))
    /\ UNCHANGED <<locals, call, lock, caches, remote, callbacks, events, fetches, nCalls,
                   singleton, staleAtStart>>

\* results = self.mobile_client.search(query); return SearchResults.from_data(results)
Search(t) ==
    /\ At(t, "search", "start")
    /\ \/ Leave(t, [k |-> "SearchResults"], None)
       \/ Leave(t, None, Error("search"))
    /\ UNCHANGED <<locals, call, lock, caches, remote, callbacks, events, fetches, nCalls,
                   singleton, staleAtStart>>

\* ------------------------- GP.add_to_my_library, GP.remove_from_my_library
\* An operation that invalidates whatever the remote call answered.
AfterLibraryChangeAlways(t, r) == Call(t, "invalidate_caches", "ret")

\* After result = <the remote call>: if result: self.invalidate_caches()
AfterLibraryChange(t, r) ==
    IF Truthy(r) THEN Call(t, "invalidate_caches", "ret") ELSE Goto(t, "ret")

\* result = self.mobile_client.add_store_tracks(track.id): the identifiers
\* added, none (the service did not add it), or the call raises.
\* (Track.add_to_my_library and Track.remove_from_my_library only forward to
\* the GP methods.)
AddToMyLibrary(t) ==
    /\ At(t, "add_to_my_library", "start")
    /\ \/ /\ library' = library \cup {call[t].arg}
          /\ result' = [result EXCEPT ![t] = List(<<call[t].arg>>)]
          /\ AfterLibraryChange(t, List(<<call[t].arg>>))
       \/ /\ result' = [result EXCEPT ![t] = List(<<>>)]
          /\ AfterLibraryChange(t, List(<<>>))
          /\ UNCHANGED library
       \/ /\ Leave(t, None, Error("add_store_tracks"))
          /\ UNCHANGED <<result, library>>
    /\ UNCHANGED <<data, prev_auth_state, call, lock, caches, is_authenticated, callbacks,
                   events, fetches, nCalls, singleton, staleAtStart>>

\* result = self.mobile_client.delete_songs(track.id)
RemoveFromMyLibrary(t) ==
    /\ At(t, "remove_from_my_library", "start")
    /\ \/ /\ library' = library \ {call[t].arg}
          /\ result' = [result EXCEPT ![t] = List(<<call[t].arg>>)]
          /\ AfterLibraryChange(t, List(<<call[t].arg>>))
       \/ /\ result' = [result EXCEPT ![t] = List(<<>>)]
          /\ AfterLibraryChange(t, List(<<>>))
          /\ UNCHANGED library
       \/ /\ Leave(t, None, Error("delete_songs"))
          /\ UNCHANGED <<result, library>>
    /\ UNCHANGED <<data, prev_auth_state, call, lock, caches, is_authenticated, callbacks,
                   events, fetches, nCalls, singleton, staleAtStart>>

\* return result
LibraryReturn(t) ==
    /\ stack[t] # <<>>
    /\ Top(t).f \in {"add_to_my_library", "remove_from_my_library"} /\ Top(t).l = "ret"
    /\ Leave(t, result[t], None)
    /\ UNCHANGED <<locals, call, lock, caches, remote, callbacks, events, fetches, nCalls,
                   singleton, staleAtStart>>

\* ------------------------------------------------------ Track.create_station
Station(id, tracks, loaded) ==
    [k |-> "Station", id |-> id, tracks |-> tracks, tracks_loaded |-> loaded]

\* mobile_client.get_station_tracks(self.id, 100): the fragments of the
\* station's tracks (store tracks).
StoreSong(i) == [id |-> KeyAbsent, trackId |-> KeyAbsent, storeId |-> i]
GetStationTracks(id) == <<StoreSong(id)>>

\* The station once Station.load_tracks has run to its end:
\* self._tracks = Track.from_data(data, many=True); self._tracks_loaded = True
Loaded(station) == Station(station.id, FromDataMany(GetStationTracks(station.id)), TRUE)

\* A get_tracks without its assert statement.
GetTracksNeverRaises(station) == FALSE

\* Station.get_tracks: assert self._tracks_loaded
GetTracksRaises(station) == ~station.tracks_loaded

\* station_id = GP.get().mobile_client.create_station(...); station = Station(station_id)
CreateStation(t) ==
    /\ At(t, "create_station", "start")
    /\ \/ /\ data' = [data EXCEPT ![t] = Station(call[t].arg, <<>>, FALSE)]
          /\ Goto(t, "load")
       \/ /\ Leave(t, None, Error("create_station"))
          /\ UNCHANGED data
    /\ UNCHANGED <<result, prev_auth_state, call, lock, caches, remote, callbacks, events,
                   fetches, nCalls, singleton, staleAtStart>>

\* station.load_tracks(); return station.  When load_tracks raises, the
\* station, which only this frame knows, goes with the frame.
LoadTracks(t) ==
    /\ At(t, "create_station", "load")
    /\ \/ /\ data' = [data EXCEPT ![t] = Loaded(data[t])]
          /\ Leave(t, Loaded(data[t]), None)
       \/ /\ data' = [data EXCEPT ![t] = None]
          /\ Leave(t, None, Error("get_station_tracks"))
    /\ UNCHANGED <<result, prev_auth_state, call, lock, caches, remote, callbacks, events,
                   fetches, nCalls, singleton, staleAtStart>>

\* ------------------------------- the entity models, called on the main thread
\* The record of a synchronous call of f.
SyncCall(f, a) == [op |-> f, mode |-> "sync", arg |-> a, extra |-> 0, caller |-> Main]

\* An identifier as a Python value.
IdValue(i) == IF i = NoneId THEN None ELSE [k |-> "id", id |-> i]

\* track.id, for the track in data: the identifier, or the accessor raises.
CallTrackId(t) ==
    /\ At(t, "id", "start")
    /\ IF TrackIdRaises(data[t].self)
       THEN Leave(t, None, Error("no id"))
       ELSE Leave(t, IdValue(TrackId(data[t].self)), None)
    /\ UNCHANGED <<locals, call, lock, caches, remote, callbacks, events, fetches, nCalls,
                   singleton, staleAtStart>>

\* Track.from_data(data), for the fragment in data.
CallFromData(t) ==
    /\ At(t, "from_data", "start")
    /\ IF FromDataRaises(data[t].fragment)
       THEN Leave(t, None, Error("from_data"))
       ELSE Leave(t, FromData(data[t].fragment), None)
    /\ UNCHANGED <<locals, call, lock, caches, remote, callbacks, events, fetches, nCalls,
                   singleton, staleAtStart>>

\* self == other, for the two tracks in data.
CallTrackEq(t) ==
    /\ At(t, "__eq__", "start")
    /\ Leave(t, Bool(TrackEq(data[t].self, data[t].other)), None)
    /\ UNCHANGED <<locals, call, lock, caches, remote, callbacks, events, fetches, nCalls,
                   singleton, staleAtStart>>

\* GP.get_track_by_id(any_id), for the identifier in data.
CallGetTrackById(t) ==
    /\ At(t, "get_track_by_id", "start")
    /\ IF GetTrackByIdRaises(cached_tracks)
       THEN Leave(t, None, Error("TypeError"))
       ELSE Leave(t, GetTrackById(cached_tracks, data[t].any_id), None)
    /\ UNCHANGED <<locals, call, lock, caches, remote, callbacks, events, fetches, nCalls,
                   singleton, staleAtStart>>

\* Playlist.playlist_items_to_tracks(playlist_tracks), for the entries in data.
CallPlaylistItemsToTracks(t) ==
    /\ At(t, "playlist_items_to_tracks", "start")
    /\ LET r == PlaylistItemsToTracks(data[t].entries, cached_tracks)
       IN /\ cached_tracks' = r.cache
          /\ IF r.error # None
             THEN Leave(t, None, r.error)
             ELSE Leave(t, [k |-> "list", items |-> r.tracks, refs |-> r.refs], None)
    /\ UNCHANGED <<locals, call, lock, cached_playlists, remote, callbacks, events, fetches,
                   nCalls, singleton, staleAtStart>>

\* The main thread calls load_tracks or get_tracks on the station it holds.
CallStation(t, f) ==
    /\ Idle(t) /\ data[t].k = "Station"
    /\ stack' = [stack EXCEPT ![t] = <<Frame(f, "start")>>]
    /\ call' = [call EXCEPT ![t] = SyncCall(f, data[t].id)]
    /\ ret' = [ret EXCEPT ![t] = None]
    /\ exc' = [exc EXCEPT ![t] = None]
    /\ coreOut' = [coreOut EXCEPT ![t] = NotEnded]
    /\ UNCHANGED <<locals, lock, caches, remote, callbacks, events, fetches, nCalls,
                   singleton, staleAtStart>>

\* Station.load_tracks: the remote call raises, or the tracks are stored and
\* the station is marked loaded.
StationLoadTracks(t) ==
    /\ At(t, "load_tracks", "start")
    /\ \/ /\ data' = [data EXCEPT ![t] = Loaded(data[t])]
          /\ Leave(t, None, None)
       \/ /\ Leave(t, None, Error("get_station_tracks"))
          /\ UNCHANGED data
    /\ UNCHANGED <<result, prev_auth_state, call, lock, caches, remote, callbacks, events,
                   fetches, nCalls, singleton, staleAtStart>>

\* Station.get_tracks
StationGetTracks(t) ==
    /\ At(t, "get_tracks", "start")
    /\ IF GetTracksRaises(data[t])
       THEN Leave(t, None, Error("AssertionError"))
       ELSE Leave(t, List(data[t].tracks), None)
    /\ UNCHANGED <<locals, call, lock, caches, remote, callbacks, events, fetches, nCalls,
                   singleton, staleAtStart>>

\* ------------------------------------------------------------ specification
Step(t) ==
    \/ ProcessTry(t) \/ ProcessAfter(t)
    \/ Acquire(t) \/ Release(t)
    \/ InvalidateTracks(t) \/ InvalidatePlaylists(t) \/ InvalidateFire(t)
    \/ LoginLogout(t) \/ LoginPrev(t) \/ LoginRemote(t) \/ LoginFire(t)
    \/ GetAllTracksCheck(t) \/ GetAllTracksHit(t) \/ GetAllTracksFetch(t)
    \/ GetAllTracksStore(t) \/ GetAllTracksReturn(t)
    \/ PlaylistsCheck(t) \/ PlaylistsHit(t) \/ PlaylistsFetch(t)
    \/ PlaylistsReconcile(t) \/ PlaylistsStore(t) \/ PlaylistsReturn(t)
    \/ GetStreamUrl(t) \/ Search(t)
    \/ AddToMyLibrary(t) \/ RemoveFromMyLibrary(t) \/ LibraryReturn(t)
    \/ CreateStation(t) \/ LoadTracks(t)

Next ==
    \/ \E f \in Asynchronous : \E a \in Args(f) : \E x \in Extras : AsyncCall(f, a, x)
    \/ \E t \in Threads : Step(t)

Spec == Init /\ [][Next]_vars

\* ------------------------------------- SongListBox (src/clay/songlist.py)
STATE_IDLE == 0
STATE_LOADING == 1
STATE_PLAYING == 2
STATE_PAUSED == 3
States == {STATE_IDLE, STATE_LOADING, STATE_PLAYING, STATE_PAUSED}

\* The items of a walker: a SongListItem with its track and state, or the
\* urwid.Text of a placeholder.
SongListItem(track, state) == [k |-> "SongListItem", track |-> track, state |-> state]
Placeholder == [k |-> "Text"]

\* SongListItem.set_state(state) (the item's text is drawn from its state)
SetState(songitem, state) == [songitem EXCEPT !.state = state]

\* One turn of the loop of track_changed.
TrackChangedItem(songitem, track) ==
    IF songitem.k = "Text" THEN songitem
    ELSE IF TrackEq(songitem.track, track) THEN SetState(songitem, STATE_LOADING)
    ELSE IF songitem.state # STATE_IDLE THEN SetState(songitem, STATE_IDLE)
    ELSE songitem

\* The positions track_changed hands to self.walker.set_focus.
FocusedBy(walker, track) ==
    {i \in 1..Len(walker) : walker[i].k # "Text" /\ TrackEq(walker[i].track, track)}

\* The song list once track_changed(track) has run: every item visited in
\* order, the focus on the last item that matched.
TrackChanged(box, track) ==
    [k |-> "SongListBox",
     walker |-> [i \in 1..Len(box.walker) |-> TrackChangedItem(box.walker[i], track)],
     focus |-> IF FocusedBy(box.walker, track) = {} THEN box.focus
               ELSE CHOOSE i \in FocusedBy(box.walker, track) :
                        \A j \in FocusedBy(box.walker, track) : j <= i,
     track |-> track]

\* The tracks song lists show: of the library, of the store (search results,
\* stations) and of a playlist (a library track with its entry's track id).
SongTracks ==
    {Track(i, NoneId, NoneId) : i \in TrackIds} \cup {Track(NoneId, NoneId, i) : i \in TrackIds}
    \cup {Track(i, i, NoneId) : i \in TrackIds}

\* The main thread calls track_changed(track) on the song list it holds: a
\* new track's playback has started.
CallTrackChanged(t) ==
    /\ Idle(t) /\ data[t].k = "SongListBox"
    /\ \E track \in SongTracks : data' = [data EXCEPT ![t].track = track]
    /\ stack' = [stack EXCEPT ![t] = <<Frame("track_changed", "start")>>]
    /\ call' = [call EXCEPT ![t] = SyncCall("track_changed", NoArg)]
    /\ ret' = [ret EXCEPT ![t] = None]
    /\ exc' = [exc EXCEPT ![t] = None]
    /\ coreOut' = [coreOut EXCEPT ![t] = NotEnded]
    /\ UNCHANGED <<result, prev_auth_state, lock, caches, remote, callbacks, events, fetches,
                   nCalls, singleton, staleAtStart>>

\* SongListBox.track_changed(track)
SongListTrackChanged(t) ==
    /\ At(t, "track_changed", "start")
    /\ data' = [data EXCEPT ![t] = TrackChanged(data[t], data[t].track)]
    /\ Leave(t, None, None)
    /\ UNCHANGED <<result, prev_auth_state, call, lock, caches, remote, callbacks, events,
                   fetches, nCalls, singleton, staleAtStart>>

\* ------------------------- specification of the entity models on their own
\* The main thread makes one call of an entity model's operation (and then,
\* on a station, any calls), with inputs drawn from the tracks over the
\* identifiers, the caches of up to MaxCached tracks and the playlists of up
\* to MaxEntries entries.
Ids == {NoneId} \cup TrackIds
Tracks == {Track(a, b, c) : a \in Ids, b \in Ids, c \in Ids}
Caches == {None} \cup {List(s) : s \in UNION {[1..n -> Tracks] : n \in 0..MaxCached}}

\* An entry whose embedded fragment has none of the three identifier keys.
BrokenEntry ==
    [trackId |-> 1,
     track |-> [k |-> "dict", id |-> KeyAbsent, trackId |-> KeyAbsent, storeId |-> KeyAbsent]]
Entries == {BareEntry(i) : i \in TrackIds} \cup {FullEntry(i) : i \in TrackIds} \cup {BrokenEntry}
EntryLists == UNION {[1..n -> Entries] : n \in 0..MaxEntries}

\* The response fragments: each identifier key absent, null or set.
KeyValues == {KeyAbsent} \cup Ids
Fragments == [id : KeyValues, trackId : KeyValues, storeId : KeyValues]

\* The song lists: a placeholder, or up to MaxItems items in any states (the
\* states media_state_changed and earlier track_changed calls left them in).
SongItems == {SongListItem(a, st) : a \in SongTracks, st \in States}
SongLists ==
    {[k |-> "SongListBox", walker |-> w, focus |-> IF Len(w) > 0 THEN 1 ELSE 0, track |-> None] :
         w \in {<<Placeholder>>} \cup UNION {[1..n -> SongItems] : n \in 0..MaxItems}}

ModelCalls ==
    {[op |-> "from_data", arg |-> NoArg, input |-> [k |-> "args", fragment |-> d], cache |-> None] :
         d \in Fragments}
    \cup
    {[op |-> "id", arg |-> NoArg, input |-> [k |-> "args", self |-> a], cache |-> None] : a \in Tracks}
    \cup {[op |-> "__eq__", arg |-> NoArg, input |-> [k |-> "args", self |-> a, other |-> b], cache |-> None] :
             a \in Tracks, b \in Tracks}
    \cup {[op |-> "get_track_by_id", arg |-> NoArg, input |-> [k |-> "args", any_id |-> i], cache |-> c] :
             i \in Ids, c \in Caches}
    \cup {[op |-> "playlist_items_to_tracks", arg |-> NoArg,
           input |-> [k |-> "args", entries |-> es, cache |-> c], cache |-> c] :
             es \in EntryLists, c \in Caches}
    \cup {[op |-> "create_station", arg |-> i, input |-> None, cache |-> None] : i \in TrackIds}
    \cup {[op |-> "Station", arg |-> i, input |-> Station(i, <<>>, FALSE), cache |-> None] :
             i \in TrackIds}
    \cup {[op |-> "SongListBox", arg |-> NoArg, input |-> box, cache |-> None] : box \in SongLists}

InitModels ==
    /\ \E c \in ModelCalls :
          /\ stack = [t \in Threads |->
                        IF t = Main /\ c.op \notin {"Station", "SongListBox"}
                        THEN <<Entry(c.op)>> ELSE <<>>]
          /\ call = [t \in Threads |-> IF t = Main THEN SyncCall(c.op, c.arg) ELSE NoCall]
          /\ data = [t \in Threads |-> IF t = Main THEN c.input ELSE None]
          /\ cached_tracks = c.cache
    /\ ret = [t \in Threads |-> None]
    /\ exc = [t \in Threads |-> None]
    /\ result = [t \in Threads |-> None]
    /\ prev_auth_state = [t \in Threads |-> FALSE]
    /\ lock = [f \in Synchronized |-> Free]
    /\ cached_playlists = None
    /\ is_authenticated = FALSE
    /\ library = {}
    /\ callbacks = [t \in Threads |-> <<>>]
    /\ coreOut = [t \in Threads |-> NotEnded]
    /\ fired = [t \in Threads |-> 0]
    /\ authEvents = [t \in Threads |-> <<>>]
    /\ authAtCall = [t \in Threads |-> FALSE]
    /\ fetches = 0
    /\ nCalls = 0
    /\ instance = 1
    /\ constructed = 1
    /\ staleAtStart = [t \in Threads |-> FALSE]

NextModels ==
    \/ CallFromData(Main)
    \/ CallTrackId(Main) \/ CallTrackEq(Main) \/ CallGetTrackById(Main)
    \/ CallPlaylistItemsToTracks(Main)
    \/ Acquire(Main) \/ CreateStation(Main) \/ LoadTracks(Main) \/ Release(Main)
    \/ \E f \in {"load_tracks", "get_tracks"} : CallStation(Main, f)
    \/ StationLoadTracks(Main) \/ StationGetTracks(Main)
    \/ CallTrackChanged(Main) \/ SongListTrackChanged(Main)

SpecModels == InitModels /\ [][NextModels]_vars

\* ------------------------------------------- specification of the caches
\* The operations that fill or clear cached_tracks, called as in Spec, with
\* room for a call made after two others.
CacheOps == {"get_all_tracks", "add_to_my_library", "remove_from_my_library", "login"}

StepCaches(t) ==
    \/ ProcessTry(t) \/ ProcessAfter(t)
    \/ Acquire(t) \/ Release(t)
    \/ InvalidateTracks(t) \/ InvalidatePlaylists(t) \/ InvalidateFire(t)
    \/ LoginLogout(t) \/ LoginPrev(t) \/ LoginRemote(t) \/ LoginFire(t)
    \/ GetAllTracksCheck(t) \/ GetAllTracksHit(t) \/ GetAllTracksFetch(t)
    \/ GetAllTracksStore(t) \/ GetAllTracksReturn(t)
    \/ AddToMyLibrary(t) \/ RemoveFromMyLibrary(t) \/ LibraryReturn(t)

NextCaches ==
    \/ \E f \in CacheOps : \E a \in Args(f) : Spawn(f, a, 0, MaxCacheCalls)
    \/ \E t \in Threads : StepCaches(t)

SpecCaches == Init /\ [][NextCaches]_vars

\* --------------------------------------------- specification of the locks
\* The synchronized operations, called as in Spec by threads that the
\* scheduler does not starve: a thread that can take a step takes one.  The
\* account's library holds every track (what it holds decides no Lock).
InitLocks == Init /\ library = TrackIds

StepLocks(t) ==
    \/ ProcessTry(t) \/ ProcessAfter(t)
    \/ Acquire(t) \/ Release(t)
    \/ InvalidateTracks(t) \/ InvalidatePlaylists(t) \/ InvalidateFire(t)
    \/ LoginLogout(t) \/ LoginPrev(t) \/ LoginRemote(t) \/ LoginFire(t)
    \/ GetAllTracksCheck(t) \/ GetAllTracksHit(t) \/ GetAllTracksFetch(t)
    \/ GetAllTracksStore(t) \/ GetAllTracksReturn(t)
    \/ PlaylistsCheck(t) \/ PlaylistsHit(t) \/ PlaylistsFetch(t)
    \/ PlaylistsReconcile(t) \/ PlaylistsStore(t) \/ PlaylistsReturn(t)
    \/ CreateStation(t) \/ LoadTracks(t)

NextLocks ==
    \/ \E f \in Synchronized : \E a \in Args(f) : Spawn(f, a, 0, MaxLockCalls)
    \/ \E t \in Threads : StepLocks(t)

SpecLocks == InitLocks /\ [][NextLocks]_vars /\ \A t \in Spawned : WF_vars(StepLocks(t))

\* ----------------------------------------- specification of the GP singleton
\* Threads call GP.get(), none having been made before: GP.instance is None.
GPObject(i) == [k |-> "GP", id |-> i]

\* A thread calls GP.get().
GetCall(t) ==
    /\ Idle(t) /\ nCalls < MaxGets
    /\ stack' = [stack EXCEPT ![t] = <<Frame("get", "start")>>]
    /\ call' = [call EXCEPT ![t] = SyncCall("get", NoArg)]
    /\ ret' = [ret EXCEPT ![t] = None]
    /\ exc' = [exc EXCEPT ![t] = None]
    /\ coreOut' = [coreOut EXCEPT ![t] = NotEnded]
    /\ nCalls' = nCalls + 1
    /\ UNCHANGED <<locals, lock, caches, remote, callbacks, events, fetches, singleton,
                   staleAtStart>>

\* if cls.instance is None:
GetCheck(t) ==
    /\ At(t, "get", "start")
    /\ Goto(t, IF instance = NoInstance THEN "construct" ELSE "ret")
    /\ UNCHANGED <<locals, call, lock, caches, remote, callbacks, events, fetches, nCalls,
                   singleton, staleAtStart>>

\* GP(): __init__ asserts that no instance exists, sets up the new object
\* (its caches None, through invalidate_caches, which fires the class's
\* caches_invalidated) and returns it.
GetConstruct(t) ==
    /\ At(t, "get", "construct")
    /\ IF instance # NoInstance
       THEN /\ Leave(t, None, Error("AssertionError"))
            /\ UNCHANGED <<data, constructed, fired>>
       ELSE /\ constructed' = constructed + 1
            /\ data' = [data EXCEPT ![t] = GPObject(constructed + 1)]
            /\ fired' = [fired EXCEPT ![t] = @ + 1]
            /\ Goto(t, "assign")
    /\ UNCHANGED <<result, prev_auth_state, call, lock, caches, remote, callbacks, authEvents,
                   authAtCall, fetches, nCalls, instance, staleAtStart>>

\* cls.instance = (the new object)
GetAssign(t) ==
    /\ At(t, "get", "assign")
    /\ instance' = data[t].id
    /\ Goto(t, "ret")
    /\ UNCHANGED <<locals, call, lock, caches, remote, callbacks, events, fetches, nCalls,
                   constructed, staleAtStart>>

\* return cls.instance
GetReturn(t) ==
    /\ At(t, "get", "ret")
    /\ Leave(t, GPObject(instance), None)
    /\ UNCHANGED <<locals, call, lock, caches, remote, callbacks, events, fetches, nCalls,
                   singleton, staleAtStart>>

InitGet ==
    /\ stack = [t \in Threads |-> <<>>]
    /\ ret = [t \in Threads |-> None]
    /\ exc = [t \in Threads |-> None]
    /\ result = [t \in Threads |-> None]
    /\ data = [t \in Threads |-> None]
    /\ prev_auth_state = [t \in Threads |-> FALSE]
    /\ call = [t \in Threads |-> NoCall]
    /\ lock = [f \in Synchronized |-> Free]
    /\ cached_tracks = None
    /\ cached_playlists = None
    /\ is_authenticated = FALSE
    /\ library = {}
    /\ callbacks = [t \in Threads |-> <<>>]
    /\ coreOut = [t \in Threads |-> NotEnded]
    /\ fired = [t \in Threads |-> 0]
    /\ authEvents = [t \in Threads |-> <<>>]
    /\ authAtCall = [t \in Threads |-> FALSE]
    /\ fetches = 0
    /\ nCalls = 0
    /\ instance = NoInstance
    /\ constructed = 0
    /\ staleAtStart = [t \in Threads |-> FALSE]

NextGet ==
    \E t \in Threads :
        \/ GetCall(t) \/ GetCheck(t) \/ GetConstruct(t) \/ GetAssign(t) \/ GetReturn(t)

SpecGet == InitGet /\ [][NextGet]_vars

\* ------------------------------------------------------------------ claims
\* Thread t ended its call: the thread body of asynchronous() has returned.
Ended(t) == call[t].mode = "async" /\ Idle(t)

\* Thread t waits in lock.acquire() for a Lock that another thread holds.
Blocked(t) ==
    /\ stack[t] # <<>> /\ Top(t).l = "acquire"
    /\ lock[Top(t).f] \notin {Free, t}

\* Thread t is inside the body of f (called directly or from another body).
InBody(t, f) ==
    \E i \in 1..Len(stack[t]) : stack[t][i].f = f /\ stack[t][i].l \notin {"acquire", "release"}

\* Thread t is inside synchronized(f)'s wrapper, between acquire and release.
InWrapper(t, f) == \E i \in 1..Len(stack[t]) : stack[t][i] = Frame(f, "release")

\* C1: the callback of an asynchronous call is never invoked before the core
\* has ended nor more than once, it has been invoked exactly once when the
\* thread body has returned, and it is invoked on the spawned thread, never
\* on the thread that made the *_async call.
C1_CallbackExactlyOnceOnBackgroundThread ==
    \A t \in Threads :
        /\ Len(callbacks[t]) <= 1
        /\ ~coreOut[t].done => callbacks[t] = <<>>
        /\ (coreOut[t].done /\ callbacks[t] = <<>>) => At(t, "process", "after")
        /\ Ended(t) => (coreOut[t].done /\ Len(callbacks[t]) = 1)
        /\ \A i \in 1..Len(callbacks[t]) :
              callbacks[t][i].thread = t /\ t \in Spawned /\ t # call[t].caller

C1_Witness ==
    \E t \in Threads :
        /\ Ended(t) /\ coreOut[t].exc # None
        /\ Len(callbacks[t]) = 1 /\ callbacks[t][1].thread # Main

\* C2: the callback receives (r, None, **extra) when the core returned r and
\* (None, e, **extra) when it raised e, with the caller's extra unchanged, and
\* no exception is left on the calling thread or on the ended thread.
C2_CallbackReceivesOutcomeAndExtra ==
    /\ exc[Main] = None
    /\ \A t \in Threads :
        /\ Ended(t) => exc[t] = None
        /\ \A i \in 1..Len(callbacks[t]) :
              LET c == callbacks[t][i]
              IN /\ c.extra = call[t].extra
                 /\ coreOut[t].done
                 /\ coreOut[t].exc = None => (c.result = coreOut[t].ret /\ c.error = None)
                 /\ coreOut[t].exc # None => (c.result = None /\ c.error = coreOut[t].exc)

C2_Witness ==
    /\ \E t \in Threads :
          /\ Ended(t) /\ call[t].extra # 0 /\ coreOut[t].exc # None
          /\ callbacks[t] = << [result |-> None, error |-> coreOut[t].exc,
                                extra |-> call[t].extra, thread |-> t] >>
    /\ \E t \in Threads :
          /\ Ended(t) /\ coreOut[t].exc = None /\ coreOut[t].ret # None
          /\ callbacks[t][1].result = coreOut[t].ret

\* The operation of thread t's call succeeded: login returned True, a library
\* change returned a non-empty answer, any other operation did not raise.
Succeeded(t) ==
    /\ coreOut[t].done /\ coreOut[t].exc = None
    /\ call[t].op = "login" => coreOut[t].ret = Bool(TRUE)
    /\ call[t].op \in {"add_to_my_library", "remove_from_my_library"} => Truthy(coreOut[t].ret)

\* C3: in every callback invocation exactly one of result and error is
\* non-null: a non-null error when the operation did not succeed, a null
\* error with a non-null result when it did.
C3_ExactlyOneOfResultAndError ==
    \A t \in Threads : \A i \in 1..Len(callbacks[t]) :
        LET c == callbacks[t][i]
        IN IF Succeeded(t)
           THEN c.error = None /\ c.result # None
           ELSE c.error # None /\ c.result = None

\* C4: the thread that makes an *_async call is never inside a core nor
\* waiting for one: whatever the spawned threads do (running, or blocked on a
\* Lock another thread holds), it has returned, and it can make its next call
\* as long as the bounds of the model leave it one.
C4_AsyncCallNeverBlocksCaller ==
    /\ Idle(Main)
    /\ \A t \in Threads : call[t].mode = "async" => t # call[t].caller
    /\ (nCalls < MaxCalls /\ \E s \in Spawned : Idle(s)) =>
           ENABLED (\E x \in Extras : AsyncCall("login", NoArg, x))

C4_Witness ==
    /\ Idle(Main)
    /\ \E t \in Spawned : \E u \in Spawned :
          /\ Blocked(t) /\ lock[Top(t).f] = u /\ InBody(u, Top(t).f)
          /\ ~coreOut[t].done /\ callbacks[t] = <<>>

\* C5: for each synchronized operation, at most one thread is inside its body
\* at any time, whatever receiver each call was made on.
C5_OneThreadInsideSynchronizedBody ==
    \A f \in Synchronized : Cardinality({t \in Threads : InBody(t, f)}) <= 1

C5_Witness ==
    \E t \in Threads : \E u \in Threads :
        /\ call[t].op = "create_station" /\ call[u].op = "create_station"
        /\ call[t].arg # call[u].arg
        /\ InBody(t, "create_station") /\ Blocked(u)

\* What the body of a synchronized operation (and what it calls) can raise.
BodyErrors(f) ==
    CASE f = "login" -> {"login"}
      [] f = "get_all_tracks" -> {"get_all_songs"}
      [] f = "get_all_user_playlist_contents" ->
            {"get_all_songs", "get_all_user_playlist_contents", "TypeError", "AttributeError"}
      [] f = "create_station" -> {"create_station", "get_station_tracks"}

\* C6: a synchronized operation's Lock is held only by a thread that is inside
\* its wrapper: once a call has returned or raised it holds no Lock, and what
\* the body raised is what its caller gets.
C6_LockReleasedOnEveryExit ==
    /\ \A f \in Synchronized : lock[f] # Free => (lock[f] \in Threads /\ InWrapper(lock[f], f))
    /\ \A t \in Threads : coreOut[t].done => \A f \in Synchronized : lock[f] # t
    /\ \A t \in Threads :
          (coreOut[t].done /\ coreOut[t].exc # None /\ call[t].op \in Synchronized) =>
              coreOut[t].exc.what \in BodyErrors(call[t].op)

C6_Witness ==
    \E t \in Threads : \E u \in Threads :
        /\ call[t].op = "login" /\ coreOut[t].done /\ coreOut[t].exc = Error("login")
        /\ call[u].op = "login" /\ lock["login"] = u /\ InBody(u, "login")

\* C7: get_all_tracks fetches the library from the remote service at most once
\* between two clearings of cached_tracks.
C7_AtMostOneFetchPerCacheLifetime == fetches <= 1

\* Thread t returns from f at label l in this step.
Returns(t, f, l) == At(t, f, l) /\ stack'[t] # stack[t]

\* C8: when a call of invalidate_caches returns, cached_tracks and
\* cached_playlists are both None and it has fired caches_invalidated once.
C8_InvalidateLeavesBothCachesCleared ==
    [][\A t \in Threads :
          Returns(t, "invalidate_caches", "fire") =>
              (cached_tracks' = None /\ cached_playlists' = None /\ fired'[t] = 1)]_vars

\* C9: when add_to_my_library or remove_from_my_library returns after its
\* remote call succeeded, both caches are None and caches_invalidated was fired.
C9_LibraryChangeLeavesCachesCleared ==
    [][\A t \in Threads : \A f \in {"add_to_my_library", "remove_from_my_library"} :
          (Returns(t, f, "ret") /\ Truthy(result[t])) =>
              (cached_tracks' = None /\ cached_playlists' = None /\ fired'[t] = 1)]_vars

\* C10: when login returns, it has fired auth_state_changed (with the new
\* state) if and only if the authentication state differs from the one at the
\* moment login was called.
C10_LoginFiresIffStateChanged ==
    [][\A t \in Threads :
          Returns(t, "login", "fire") =>
              /\ (authEvents'[t] # <<>>) <=> (is_authenticated' # authAtCall[t])
              /\ \A i \in 1..Len(authEvents'[t]) : authEvents'[t][i] = is_authenticated']_vars

\* Thread t takes a step of f at label l (whatever the step does).
Steps(t, f, l) == At(t, f, l) /\ stack'[t] # stack[t]

\* Thread t runs invalidate_caches called from login.
InvalidatesForLogin(t) ==
    /\ Len(stack[t]) >= 2
    /\ stack[t][1].f = "invalidate_caches" /\ stack[t][2] = Frame("login", "prev")

\* No thread but t runs, or has run, an operation that fills a cache.
NoCacheFillBeside(t) ==
    \A u \in Threads \ {t} :
        call[u].op \notin {"get_all_tracks", "get_all_user_playlist_contents"}

\* C11: login logs out before it invalidates, and has invalidated both caches
\* (firing caches_invalidated once) before it attempts the remote
\* authentication, whether that then succeeds, is refused or raises; when no
\* other thread fills a cache, both caches are None as login returns or raises.
C11_LoginLogsOutThenInvalidatesFirst ==
    [][\A t \in Threads :
          /\ (InvalidatesForLogin(t) /\ stack'[t] # stack[t]) =>
                 (~is_authenticated /\ fired[t] = 0)
          /\ Steps(t, "login", "remote") => (~is_authenticated /\ fired[t] = 1)
          /\ ((Steps(t, "login", "remote") \/ Steps(t, "login", "fire"))
                 /\ Len(stack'[t]) < Len(stack[t]) /\ NoCacheFillBeside(t)) =>
                 (cached_tracks' = None /\ cached_playlists' = None /\ fired'[t] = 1)]_vars

\* A second login, made while authenticated, has logged out and invalidated
\* and now waits for the remote service's answer.
C11_Witness ==
    \E t \in Threads :
        /\ At(t, "login", "remote") /\ authAtCall[t] /\ ~is_authenticated
        /\ fired[t] = 1 /\ cached_tracks = None /\ cached_playlists = None

\* C12: get_all_user_playlist_contents returns the populated playlist cache
\* without calling get_all_tracks or the remote service; otherwise the library
\* cache is populated when the remote playlist fetch starts, and the call
\* returns the reconciled playlists, which cached_playlists then holds.
C12_PlaylistsCachedOrFetchedAfterLibrary ==
    [][\A t \in Threads :
          /\ (Steps(t, "get_all_user_playlist_contents", "start") /\ cached_playlists # None) =>
                 Top(t)' = Frame("get_all_user_playlist_contents", "hit")
          /\ Steps(t, "get_all_user_playlist_contents", "hit") => ret'[t] # None
          /\ (Steps(t, "get_all_user_playlist_contents", "fetch") /\ exc[t] = None) =>
                 cached_tracks # None
          /\ Steps(t, "get_all_user_playlist_contents", "ret") =>
                 (ret'[t] = data[t] /\ cached_playlists' = data[t])]_vars

\* The main thread's synchronous call of f has returned or raised.
Called(f) == call[Main].op = f /\ call[Main].mode = "sync" /\ coreOut[Main].done

\* The identifier fields of a track.
Fields(track) == {track.id_, track.store_id, track.track_id}

\* The positions of the tracks of a list that have any_id in a field.
Matching(tracks, any_id) == {n \in 1..Len(tracks) : any_id \in Fields(tracks[n])}

\* C13: get_track_by_id(identifier) returns the first cached track that has
\* the identifier in one of its three fields; it returns None, and does not
\* raise, when no cached track has it and when cached_tracks is None.
C13_GetTrackByIdFirstMatchOrNone ==
    Called("get_track_by_id") =>
        LET any_id == data[Main].any_id
            found == IF cached_tracks = None THEN {}
                     ELSE Matching(cached_tracks.items, any_id)
        IN /\ coreOut[Main].exc = None
           /\ coreOut[Main].ret =
                  IF found = {} THEN None
                  ELSE cached_tracks.items[CHOOSE n \in found : \A m \in found : n <= m]

\* Entry e can be resolved: its embedded fragment has an identifier key, or
\* its bare track-id is in a field of a track of the library cache.
Resolvable(e, cache) ==
    IF e.track # None
    THEN {e.track.id, e.track.trackId, e.track.storeId} # {KeyAbsent}
    ELSE cache # None /\ Matching(cache.items, e.trackId) # {}

\* The library track a bare entry refers to: the first that matches.
LibraryTrackOf(e, cache) ==
    LET found == Matching(cache.items, e.trackId)
    IN cache.items[CHOOSE n \in found : \A m \in found : n <= m]

\* C14: over entries that can all be resolved, playlist_items_to_tracks
\* returns one track per entry, in the order of the entries: for an entry with
\* an embedded fragment the track parsed from it, for a bare entry a new
\* object that has the entry's track-id as track_id and the id_ and store_id
\* of the library track it refers to; the tracks of the library cache are
\* what they were before the call.
C14_ReconciliationCopiesInOrder ==
    LET entries == data[Main].entries
        before == data[Main].cache
    IN (Called("playlist_items_to_tracks")
          /\ \A i \in 1..Len(entries) : Resolvable(entries[i], before)) =>
           /\ coreOut[Main].exc = None
           /\ Len(coreOut[Main].ret.items) = Len(entries)
           /\ cached_tracks = before
           /\ \A i \in 1..Len(entries) :
                 LET e == entries[i]
                     got == coreOut[Main].ret.items[i]
                 IN IF e.track # None
                    THEN got = FromData(e.track)
                    ELSE /\ got.track_id = e.trackId
                         /\ got.id_ = LibraryTrackOf(e, before).id_
                         /\ got.store_id = LibraryTrackOf(e, before).store_id
                         /\ coreOut[Main].ret.refs[i] > Len(before.items)

\* The scenario of the spec: an entry with embedded data, then a bare entry
\* that refers to a library track whose own track_id is another one.
C14_Witness ==
    LET entries == data[Main].entries
        before == data[Main].cache
    IN /\ Called("playlist_items_to_tracks") /\ coreOut[Main].exc = None
       /\ Len(entries) = 2 /\ entries[1].track # None /\ entries[2].track = None
       /\ Resolvable(entries[2], before)
       /\ LibraryTrackOf(entries[2], before).track_id # entries[2].trackId
       /\ coreOut[Main].ret.items[2].track_id = entries[2].trackId
       /\ cached_tracks = before

\* A bare entry of the playlist response that refers to no cached track.
UnknownEntries(response, cache) ==
    {e \in UNION {{p.tracks[i] : i \in 1..Len(p.tracks)} : p \in {response[j] : j \in 1..Len(response)}} :
        e.track = None /\ Matching(cache.items, e.trackId) = {}}

\* C15: when reconciliation meets a bare track-id that no track of the
\* (populated) library cache has, get_all_user_playlist_contents does not
\* raise: it goes on to store and return the playlists.
C15_UnknownTrackIdDoesNotCrashFetch ==
    [][\A t \in Threads :
          (/\ Steps(t, "get_all_user_playlist_contents", "reconcile")
           /\ cached_tracks # None
           /\ UnknownEntries(data[t].items, cached_tracks) # {}) =>
              (exc'[t] = None /\ Top(t)' = Frame("get_all_user_playlist_contents", "store"))]_vars

\* C16: for every track, the id accessor raises if and only if id_, track_id
\* and store_id are all empty; otherwise it returns the first of id_,
\* track_id, store_id (in that order) that is not empty.
C16_IdIsFirstNonEmptyOrRaises ==
    Called("id") =>
        LET order == <<data[Main].self.id_, data[Main].self.track_id, data[Main].self.store_id>>
            set == {i \in 1..3 : order[i] # NoneId}
        IN /\ (coreOut[Main].exc # None) <=> (set = {})
           /\ set # {} =>
                 coreOut[Main].ret = [k |-> "id", id |-> order[CHOOSE i \in set : \A j \in set : i <= j]]

C16_Witness ==
    /\ Called("id")
    /\ data[Main].self.id_ = NoneId
    /\ data[Main].self.track_id # NoneId /\ data[Main].self.store_id # NoneId
    /\ data[Main].self.track_id # data[Main].self.store_id
    /\ coreOut[Main].ret = [k |-> "id", id |-> data[Main].self.track_id]

\* The highest-priority populated identifier of a track, with its kind:
\* track id, else store id, else library id.
Identity(track) ==
    IF track.track_id # NoneId THEN <<"track_id", track.track_id>>
    ELSE IF track.store_id # NoneId THEN <<"store_id", track.store_id>>
    ELSE IF track.id_ # NoneId THEN <<"id_", track.id_>>
    ELSE <<"none", NoneId>>

\* a == b and b == a give the same answer.
EqSymmetric(a, b) == TrackEq(a, b) = TrackEq(b, a)

\* a == b exactly when the highest-priority populated identifiers match.
EqByIdentity(a, b) ==
    (Identity(a)[1] # "none" /\ Identity(b)[1] # "none") =>
        (TrackEq(a, b) <=> Identity(a) = Identity(b))

\* C17: Track equality is symmetric, and two tracks are equal if and only if
\* their highest-priority populated identifiers (track id, else store id, else
\* library id) match; so two tracks with only the same library id are equal.
C17_EqualitySymmetricByPrecedence ==
    Called("__eq__") =>
        /\ coreOut[Main].ret = Bool(TrackEq(data[Main].self, data[Main].other))
        /\ EqSymmetric(data[Main].self, data[Main].other)
        /\ EqByIdentity(data[Main].self, data[Main].other)

\* The station the main thread holds.
Held == data[Main]

\* C18: get_tracks raises an assertion error on a station that no load_tracks
\* call has loaded, and returns the loaded tracks once a load_tracks call has
\* completed; a load_tracks call that raises leaves the station as it was,
\* not loaded if it was not; the station that Track.create_station returns
\* has its tracks loaded.
C18_StationTracksOnlyAfterLoad ==
    /\ [](Called("get_tracks") =>
             IF Held.tracks_loaded
             THEN coreOut[Main].exc = None /\ coreOut[Main].ret = List(Held.tracks)
             ELSE coreOut[Main].exc = Error("AssertionError") /\ Held.tracks = <<>>)
    /\ []((Called("load_tracks") /\ coreOut[Main].exc = None) =>
             (Held.tracks_loaded /\ Held.tracks = FromDataMany(GetStationTracks(Held.id))))
    /\ []((Called("create_station") /\ coreOut[Main].exc = None) =>
             (coreOut[Main].ret.k = "Station" /\ coreOut[Main].ret.tracks_loaded))
    /\ [][(Steps(Main, "load_tracks", "start") /\ exc'[Main] # None) => Held' = Held]_vars

\* get_tracks has failed on a station that is not loaded.
C18_Witness ==
    /\ Called("get_tracks") /\ coreOut[Main].exc = Error("AssertionError")
    /\ ~Held.tracks_loaded

\* C19: at most one GP object is ever constructed, and every GP.get() call
\* returns, without raising, the same object as every other.
C19_SingletonConstructedOnce ==
    /\ constructed <= 1
    /\ \A t \in Threads :
          (call[t].op = "get" /\ coreOut[t].done) =>
              /\ coreOut[t].exc = None
              /\ \A u \in Threads :
                    (call[u].op = "get" /\ coreOut[u].done) => coreOut[u].ret = coreOut[t].ret

\* C20: a get_all_tracks call that starts after an invalidate_caches call has
\* finished does not return library data that was fetched before that
\* invalidation.
C20_NoDataFromBeforeInvalidation ==
    [][\A t \in Threads : \A l \in {"hit", "ret"} :
          (Steps(t, "get_all_tracks", l) /\ staleAtStart[t]) => ret'[t] = None]_vars

\* C21: whenever cached_playlists is populated, cached_tracks is populated as
\* well; read here outside the calls of invalidate_caches, which clears one
\* cache after the other.
C21_PlaylistCacheImpliesLibraryCache ==
    (Truthy(cached_playlists) /\ ~Invalidating) => cached_tracks # None

\* The playlist response thread t holds has an entry without an embedded
\* track, which reconciliation looks up in cached_tracks.
HasBareEntry(t) ==
    \E i \in 1..Len(data[t].items) : \E j \in 1..Len(data[t].items[i].tracks) :
        data[t].items[i].tracks[j].track = None

\* C22: when get_all_user_playlist_contents reconciles a response that has an
\* entry to look up, cached_tracks is populated (not None), and reconciliation
\* does not fail with the TypeError of iterating None.
C22_ReconciliationReadsPopulatedCache ==
    [][\A t \in Threads :
          (Steps(t, "get_all_user_playlist_contents", "reconcile") /\ HasBareEntry(t)) =>
              (cached_tracks # None /\ exc'[t] # Error("TypeError"))]_vars

\* No call runs and no Lock is held.
Quiescent ==
    /\ \A t \in Threads : Idle(t)
    /\ \A f \in Synchronized : lock[f] = Free

\* C23: with threads that are not starved and remote calls that return or
\* raise, every call ends (a thread leaves lock.acquire() only holding the
\* Lock it waited for, so each has got the Locks it needs), and once the
\* calls have ended every Lock is free.
C23_LocksNeverDeadlock ==
    /\ [][\A t \in Spawned : \A f \in Synchronized :
             Steps(t, f, "acquire") => (lock[f] = Free /\ lock'[f] = t)]_vars
    /\ \A t \in Spawned : (~Idle(t)) ~> Idle(t)
    /\ <>[]Quiescent

\* A thread holds the Lock of get_all_user_playlist_contents and waits for the
\* Lock of get_all_tracks, which another thread holds.
C23_Witness ==
    \E t \in Spawned :
        /\ Blocked(t) /\ Top(t).f = "get_all_tracks"
        /\ lock["get_all_user_playlist_contents"] = t

LibraryOps == {"add_to_my_library", "remove_from_my_library"}

\* Thread t's step leaves both caches and its count of caches_invalidated
\* events as they were.
NoCacheEffect(t) == cached_tracks' = cached_tracks /\ cached_playlists' = cached_playlists
                    /\ fired'[t] = fired[t]

\* C24: when the remote call of add_to_my_library / remove_from_my_library
\* raises or answers falsy, the operation leaves both caches unchanged, does
\* not call invalidate_caches and fires nothing, and returns the falsy answer;
\* when get_all_songs raises inside get_all_tracks, cached_tracks is left
\* unpopulated, the exception passes through the wrapper to the caller
\* (get_all_user_playlist_contents passes it on too), and a get_all_tracks
\* call that finds the cache unpopulated goes on to fetch.
C24_FailedRemoteCallLeavesCaches ==
    [][\A t \in Threads :
          /\ \A f \in LibraryOps :
                /\ (Steps(t, f, "start") /\ exc'[t] # None) =>
                       (NoCacheEffect(t) /\ fired[t] = 0 /\ Len(stack'[t]) < Len(stack[t]))
                /\ (Steps(t, f, "start") /\ exc'[t] = None /\ ~Truthy(result'[t])) =>
                       (NoCacheEffect(t) /\ Top(t)' = Frame(f, "ret"))
                /\ (Steps(t, f, "ret") /\ ~Truthy(result[t])) =>
                       (NoCacheEffect(t) /\ fired[t] = 0 /\ ret'[t] = result[t] /\ exc'[t] = None)
          /\ (Steps(t, "get_all_tracks", "fetch") /\ exc'[t] # None) =>
                 /\ NoCacheEffect(t) /\ ~Truthy(cached_tracks')
                 /\ Top(t)' = Frame("get_all_tracks", "release")
          /\ (Steps(t, "get_all_tracks", "release") /\ exc[t] # None) =>
                 (NoCacheEffect(t) /\ exc'[t] = exc[t] /\ lock'["get_all_tracks"] = Free)
          /\ (Steps(t, "get_all_user_playlist_contents", "fetch") /\ exc[t] # None) =>
                 (NoCacheEffect(t) /\ exc'[t] = exc[t] /\ Len(stack'[t]) < Len(stack[t]))
          /\ (Steps(t, "get_all_tracks", "start") /\ ~Truthy(cached_tracks)) =>
                 Top(t)' = Frame("get_all_tracks", "fetch")]_vars

\* A get_all_tracks call ended with the error of get_all_songs and a library
\* change ended with a falsy answer; no cache was filled and nothing fired.
C24_Witness ==
    \E t \in Spawned : \E u \in Spawned :
        /\ call[t].op = "get_all_tracks" /\ coreOut[t].done
        /\ coreOut[t].exc = Error("get_all_songs")
        /\ call[u].op \in LibraryOps /\ coreOut[u].done
        /\ coreOut[u].exc = None /\ coreOut[u].ret = List(<<>>)
        /\ cached_tracks = None /\ fired[t] = 0 /\ fired[u] = 0

\* The fragment can yield a non-empty identifier: one of its keys is set.
YieldsIdentifier(d) == \E v \in {d.id, d.trackId, d.storeId} : v \in TrackIds

\* C25: Track.from_data returns a track one of whose identifier fields is
\* non-empty (its id and type accessors do not raise), and raises for every
\* fragment that cannot yield one, a key that holds null included.
C25_FromDataTracksHaveAnIdentifier ==
    Called("from_data") =>
        IF YieldsIdentifier(data[Main].fragment)
        THEN /\ coreOut[Main].exc = None
             /\ ~TrackIdRaises(coreOut[Main].ret) /\ ~TrackTypeRaises(coreOut[Main].ret)
        ELSE coreOut[Main].exc # None

\* Two tracks are the same track: their highest-priority populated
\* identifiers match.
SameTrack(a, b) == Identity(a) = Identity(b)

\* C26: after track_changed(track) has run over a song list, every item
\* whose track is the new track is in state LOADING and every other item is
\* in state IDLE: no item of another track is left LOADING, PLAYING or PAUSED.
C26_OnlyTheNewTrackIsMarked ==
    Called("track_changed") =>
        \A i \in 1..Len(data[Main].walker) :
            LET songitem == data[Main].walker[i]
            IN songitem.k # "Text" =>
                   songitem.state = IF SameTrack(songitem.track, data[Main].track)
                                    THEN STATE_LOADING ELSE STATE_IDLE
====
